---- MODULE Spec2Model ----
(***************************************************************************)
(* Model of src/bt_vendor.cc: the Intel Bluetooth vendor library.          *)
(*                                                                         *)
(* The state is the file's static variables, the process's descriptor      *)
(* table, the caller's channel slots, and the position of the one thread   *)
(* inside bt_vendor_fw_cfg / bt_vendor_wait_hcidev.  Every kernel          *)
(* primitive (socket, bind, write, poll, read, ioctl, open, property_set)  *)
(* has its outcome chosen by the environment.  The record of the current   *)
(* invocation (op, retval, log) is reset when the next invocation starts.  *)
(***************************************************************************)
EXTENDS Integers, Sequences, FiniteSets, TLC

(* ---- bounds of the model ---- *)
\* highest descriptor number of the process (descriptors 0..2 are stdio)
MaxFd == 4
\* number of index entries the packet buffer holds (MGMT_EV_SIZE_MAX scaled)
MaxEntries == 1

(* ---- program constants ---- *)
MGMT_OP_INDEX_LIST == 3
MGMT_EV_INDEX_ADDED == 4
MGMT_EV_COMMAND_COMP == 1
HCI_DEV_NONE == 65535
RFKILL_TYPE_BLUETOOTH == 2
RFKILL_OP_CHANGE_ALL == 3
\* a management opcode other than index-list (MGMT_OP_READ_INFO)
OtherCcOpcode == MGMT_OP_INDEX_LIST + 1

FdRange == 3..MaxFd
NoFd == -1
\* value of waitRet while bt_vendor_wait_hcidev has not been called
NotCalled == <<>>

VARIABLES
  bt_vendor_callbacks,  \* "NULL" or "cb"
  bt_vendor_fd,         \* -1 or the active HCI descriptor
  hci_interface,        \* target controller index
  rfkill_en,            \* 0 / 1
  bt_hwcfg_en,          \* 0 / 1
  fds,                  \* descriptor table: FdRange -> "free" | "hci" | "ctl"
  fd_array,             \* the caller's four channel slots (param of open)
  pc,                   \* "idle" | "loop" | "waited" | "crashed"
  op,                   \* opcode of the current / last invocation
  retval,               \* status returned by the last invocation
  log,                  \* primitives and callbacks of the current invocation
  fw_fd,                \* local fd of bt_vendor_fw_cfg
  wfd,                  \* local fd of bt_vendor_wait_hcidev
  ev,                   \* local packet buffer of bt_vendor_wait_hcidev
  waitRet,              \* <<ret>> of bt_vendor_wait_hcidev, <<>> if not called
  sawMatch,             \* history: a received event named the target index
  exitRead              \* history: "none", or whether the read that ended the
                        \* wait examined only fields it received: "in" / "out"

vars == <<bt_vendor_callbacks, bt_vendor_fd, hci_interface, rfkill_en,
          bt_hwcfg_en, fds, fd_array, pc, op, retval, log, fw_fd, wfd, ev,
          waitRet, sawMatch, exitRead>>

statics == <<bt_vendor_callbacks, hci_interface, rfkill_en, bt_hwcfg_en>>
waitLocals == <<fw_fd, wfd, ev, waitRet, sawMatch, exitRead>>

\* one entry of the invocation log: primitive e with arguments a, outcome ok
Ev(e, a, ok) == [e |-> e, a |-> a, ok |-> ok]

Has(l, e) == \E i \in 1..Len(l) : l[i].e = e
HasOk(l, e) == \E i \in 1..Len(l) : l[i].e = e /\ l[i].ok
Count(l, e) == Cardinality({i \in 1..Len(l) : l[i].e = e})
Pos(l, e) == CHOOSE i \in 1..Len(l) : l[i].e = e

(* ---- the descriptor table ---- *)
FreeFds(f) == {d \in FdRange : f[d] = "free"}
\* the kernel hands out the lowest free descriptor
AllocFd(f) == CHOOSE d \in FreeFds(f) : \A e \in FreeFds(f) : d <= e
\* the outcomes a descriptor-creating call can have: it can always fail, and
\* it can succeed only while a descriptor is free
CanCreate(f) == IF FreeFds(f) = {} THEN {FALSE} ELSE BOOLEAN

(* ---- bt_vendor_init: property parsing ---- *)
Digits == <<"0", "1", "2", "3", "4", "5", "6", "7", "8", "9">>
IsDigit(c) == \E i \in 1..10 : Digits[i] = c
DigitVal(c) == (CHOOSE i \in 1..10 : Digits[i] = c) - 1

\* strtol(s, NULL, 10) / atoi(s): the value of the leading digits, 0 if none
RECURSIVE strtolFrom(_, _, _)
strtolFrom(s, i, acc) ==
  IF i > Len(s) \/ ~IsDigit(s[i]) THEN acc
  ELSE strtolFrom(s, i + 1, acc * 10 + DigitVal(s[i]))
strtol(s) == strtolFrom(s, 1, 0)

\* memcmp(prop_value, "hci", 3) == 0
HasHciPrefix(s) == Len(s) >= 3 /\ SubSeq(s, 1, 3) = <<"h", "c", "i">>

parse_interface(s) ==
  IF HasHciPrefix(s) THEN strtol(SubSeq(s, 4, Len(s))) ELSE strtol(s)

InterfaceProps == {<<"0">>, <<"1">>, <<"h", "c", "i", "0">>,
                   <<"h", "c", "i", "1">>, <<"h", "c", "i">>}
RfkillProps == {<<"0">>, <<"1">>}
\* vendor.bluetooth.hwcfg: unset (length 0) or set to some value
HwcfgProps == {<<>>, <<"1">>}

Init ==
  /\ bt_vendor_callbacks = "NULL"
  /\ bt_vendor_fd = NoFd
  /\ hci_interface = 0
  /\ rfkill_en = 0
  /\ bt_hwcfg_en = 0
  /\ fds = [d \in FdRange |-> "free"]
  /\ fd_array = <<NoFd, NoFd, NoFd, NoFd>>
  /\ pc = "idle"
  /\ op = "NONE"
  /\ retval = 0
  /\ log = <<>>
  /\ fw_fd = NoFd
  /\ wfd = NoFd
  /\ ev = <<>>
  /\ waitRet = NotCalled
  /\ sawMatch = FALSE
  /\ exitRead = "none"

\* the library is entered only between init and cleanup, one call at a time
Callable == pc = "idle" /\ bt_vendor_callbacks # "NULL"

bt_vendor_init ==
  /\ pc = "idle"
  /\ bt_vendor_callbacks = "NULL"
  /\ \E p_cb \in {"NULL", "cb"}, pi \in InterfaceProps,
        pr \in RfkillProps, ph \in HwcfgProps :
       IF p_cb = "NULL"
       THEN /\ retval' = -1
            /\ UNCHANGED statics
       ELSE /\ retval' = 0
            /\ bt_vendor_callbacks' = p_cb
            /\ hci_interface' = parse_interface(pi)
            /\ rfkill_en' = strtol(pr)
            /\ bt_hwcfg_en' = (IF Len(ph) > 0 THEN 1 ELSE 0)
  /\ op' = "INIT"
  /\ log' = <<>>
  /\ UNCHANGED <<bt_vendor_fd, fds, fd_array, pc>>
  /\ UNCHANGED waitLocals

\* fault: cleanup also closes and forgets the active descriptor
bt_vendor_cleanup_closing ==
  /\ Callable
  /\ bt_vendor_callbacks' = "NULL"
  /\ op' = "CLEANUP"
  /\ retval' = 0
  /\ log' = <<>>
  /\ bt_vendor_fd' = NoFd
  /\ fds' = [d \in FdRange |-> IF d = bt_vendor_fd THEN "free" ELSE fds[d]]
  /\ UNCHANGED <<hci_interface, rfkill_en, bt_hwcfg_en, fd_array, pc>>
  /\ UNCHANGED waitLocals
bt_vendor_cleanup ==
  /\ Callable
  /\ bt_vendor_callbacks' = "NULL"
  /\ op' = "CLEANUP"
  /\ retval' = 0
  /\ log' = <<>>
  /\ UNCHANGED <<hci_interface, rfkill_en, bt_hwcfg_en, bt_vendor_fd, fds,
                 fd_array, pc>>
  /\ UNCHANGED waitLocals

(* ---- bt_vendor_open / bt_vendor_close ---- *)
\* fault: the last slot is not filled
open_slots_three(fd) == <<fd, fd, fd, NoFd>>
\* the four slots CH_CMD, CH_EVT, CH_ACL_OUT, CH_ACL_IN
open_slots(fd) == <<fd, fd, fd, fd>>
\* fault: open reports a different count of descriptors
open_retval_two(sockOk) == IF sockOk THEN 2 ELSE -1
open_retval(sockOk) == IF sockOk THEN 1 ELSE -1

bt_vendor_open ==
  /\ Callable
  /\ \E sockOk \in CanCreate(fds) :
       /\ IF sockOk
          THEN LET fd == AllocFd(fds) IN
               /\ fds' = [fds EXCEPT ![fd] = "hci"]
               /\ fd_array' = open_slots(fd)
               /\ bt_vendor_fd' = fd
               /\ log' = <<Ev("hci_socket", <<fd>>, TRUE)>>
          ELSE /\ log' = <<Ev("hci_socket", <<>>, FALSE)>>
               /\ UNCHANGED <<fds, fd_array, bt_vendor_fd>>
       /\ retval' = open_retval(sockOk)
  /\ op' = "USERIAL_OPEN"
  /\ UNCHANGED <<pc>>
  /\ UNCHANGED statics
  /\ UNCHANGED waitLocals

\* close(2): the descriptor becomes free; closing a free one is EBADF
CloseIn(f, fd) == [f EXCEPT ![fd] = "free"]
\* fault: the static is not reset after close
close_fd_after_kept(fd) == fd
close_fd_after(fd) == NoFd

bt_vendor_close ==
  /\ Callable
  /\ IF bt_vendor_fd # NoFd
     THEN /\ log' = <<Ev("hci_close", <<bt_vendor_fd>>,
                         fds[bt_vendor_fd] # "free")>>
          /\ fds' = CloseIn(fds, bt_vendor_fd)
          /\ bt_vendor_fd' = close_fd_after(bt_vendor_fd)
     ELSE /\ log' = <<>>
          /\ UNCHANGED <<fds, bt_vendor_fd>>
  /\ retval' = 0
  /\ op' = "USERIAL_CLOSE"
  /\ UNCHANGED <<pc, fd_array>>
  /\ UNCHANGED statics
  /\ UNCHANGED waitLocals

(* ---- bt_vendor_rfkill / bt_vendor_hw_cfg / power control ---- *)
\* the rfkill_event written: <<type, op, soft, hard>>
rfkill_event(block) ==
  <<RFKILL_TYPE_BLUETOOTH, RFKILL_OP_CHANGE_ALL, block, block>>

\* fault: the device is left open when the write is rejected
bt_vendor_rfkill_no_close(block, openOk, writeOk) ==
  IF ~openOk
  THEN [ret |-> -1, log |-> <<Ev("rfkill_open", <<>>, FALSE)>>]
  ELSE IF ~writeOk
  THEN [ret |-> 1,
        log |-> <<Ev("rfkill_open", <<>>, TRUE),
                  Ev("rfkill_write", rfkill_event(block), FALSE)>>]
  ELSE [ret |-> 0,
        log |-> <<Ev("rfkill_open", <<>>, TRUE),
                  Ev("rfkill_write", rfkill_event(block), TRUE),
                  Ev("rfkill_close", <<>>, TRUE)>>]
\* openOk, writeOk: outcomes of open("/dev/rfkill") and of write
bt_vendor_rfkill(block, openOk, writeOk) ==
  IF ~openOk
  THEN [ret |-> -1, log |-> <<Ev("rfkill_open", <<>>, FALSE)>>]
  ELSE IF ~writeOk
  THEN [ret |-> 1,
        log |-> <<Ev("rfkill_open", <<>>, TRUE),
                  Ev("rfkill_write", rfkill_event(block), FALSE),
                  Ev("rfkill_close", <<>>, TRUE)>>]
  ELSE [ret |-> 0,
        log |-> <<Ev("rfkill_open", <<>>, TRUE),
                  Ev("rfkill_write", rfkill_event(block), TRUE),
                  Ev("rfkill_close", <<>>, TRUE)>>]

\* fault: the hook is requested whatever the flag says
bt_vendor_hw_cfg_always(stop, en, setOk) ==
  IF stop = 1
  THEN [ret |-> (IF setOk THEN 0 ELSE 1), log |-> <<Ev("hw_stop", <<>>, setOk)>>]
  ELSE [ret |-> (IF setOk THEN 0 ELSE 1), log |-> <<Ev("hw_start", <<>>, setOk)>>]
\* setOk: outcome of property_set("vendor.bluetooth.hwcfg", ...)
bt_vendor_hw_cfg(stop, en, setOk) ==
  IF en = 0 THEN [ret |-> 0, log |-> <<>>]
  ELSE IF stop = 1
  THEN [ret |-> (IF setOk THEN 0 ELSE 1), log |-> <<Ev("hw_stop", <<>>, setOk)>>]
  ELSE [ret |-> (IF setOk THEN 0 ELSE 1), log |-> <<Ev("hw_start", <<>>, setOk)>>]

\* fault: the hook is started before the radio is unblocked
power_on_hook_first(en, openOk, writeOk, setOk) ==
  LET r == bt_vendor_rfkill(0, openOk, writeOk)
      h == bt_vendor_hw_cfg(0, en, setOk)
  IN IF h.ret # 0 THEN h
     ELSE [ret |-> r.ret, log |-> h.log \o r.log]
\* case BT_VND_OP_POWER_CTRL with *param == BT_VND_PWR_ON
power_on(en, openOk, writeOk, setOk) ==
  LET r == bt_vendor_rfkill(0, openOk, writeOk)
      h == bt_vendor_hw_cfg(0, en, setOk)
  IN IF r.ret # 0 THEN r
     ELSE [ret |-> h.ret, log |-> r.log \o h.log]

\* fault: the radio is blocked although the hook stop failed
power_off_no_short_circuit(en, openOk, writeOk, setOk) ==
  LET h == bt_vendor_hw_cfg(1, en, setOk)
      r == bt_vendor_rfkill(1, openOk, writeOk)
  IN [ret |-> (IF h.ret # 0 THEN h.ret ELSE r.ret), log |-> h.log \o r.log]
\* case BT_VND_OP_POWER_CTRL with *param != BT_VND_PWR_ON
power_off(en, openOk, writeOk, setOk) ==
  LET h == bt_vendor_hw_cfg(1, en, setOk)
      r == bt_vendor_rfkill(1, openOk, writeOk)
  IN IF h.ret # 0 THEN h
     ELSE [ret |-> r.ret, log |-> h.log \o r.log]

PowerParams == {"NULL", "PWR_ON", "PWR_OFF"}

\* fault: the kill-switch flag is not consulted
power_skipped_param_only(en, param) == param = "NULL"
\* line 346: if (!rfkill_en || !param) break;
power_skipped(en, param) == en = 0 \/ param = "NULL"

op_power_ctrl ==
  /\ Callable
  /\ \E param \in PowerParams, openOk \in CanCreate(fds),
        writeOk \in BOOLEAN, setOk \in BOOLEAN :
       LET r == IF power_skipped(rfkill_en, param)
                THEN [ret |-> 0, log |-> <<>>]
                ELSE IF param = "PWR_ON"
                THEN power_on(bt_hwcfg_en, openOk, writeOk, setOk)
                ELSE power_off(bt_hwcfg_en, openOk, writeOk, setOk)
       IN /\ retval' = r.ret
          /\ log' = r.log
          /\ op' = (IF param = "PWR_ON" THEN "POWER_ON"
                    ELSE IF param = "PWR_OFF" THEN "POWER_OFF"
                    ELSE "POWER_NULL")
  /\ UNCHANGED <<bt_vendor_fd, fds, fd_array, pc>>
  /\ UNCHANGED statics
  /\ UNCHANGED waitLocals

(* ---- the opcodes that only report success or do nothing ---- *)
StubOps == {"SCO_CFG", "GET_LPM_IDLE_TIMEOUT", "LPM_SET_MODE",
            "LPM_WAKE_SET_STATE", "SET_AUDIO_STATE", "EPILOG",
            "A2DP_OFFLOAD_START", "A2DP_OFFLOAD_STOP", "UNKNOWN"}

stub_log(o) ==
  IF o = "SCO_CFG" THEN <<Ev("scocfg_cb", <<>>, TRUE)>>
  ELSE IF o = "GET_LPM_IDLE_TIMEOUT" THEN <<Ev("set_timeout", <<3000>>, TRUE)>>
  ELSE IF o = "LPM_SET_MODE" THEN <<Ev("lpm_cb", <<>>, TRUE)>>
  ELSE IF o = "SET_AUDIO_STATE" THEN <<Ev("audio_state_cb", <<>>, TRUE)>>
  ELSE IF o = "EPILOG" THEN <<Ev("epilog_cb", <<>>, TRUE)>>
  ELSE <<>>

op_stub ==
  /\ Callable
  /\ \E o \in StubOps :
       /\ op' = o
       /\ log' = stub_log(o)
  /\ retval' = 0
  /\ UNCHANGED <<bt_vendor_fd, fds, fd_array, pc>>
  /\ UNCHANGED statics
  /\ UNCHANGED waitLocals

(* ---- struct mgmt_pkt: the packet buffer ---- *)
\* The buffer is the sequence of its fields, in wire order:
\*   1 opcode, 2 index, 3 len, then data[] read as mgmt_event_read_index:
\*   4 cc_opcode, 5 status, 6 num_intf, 7.. index[0..MaxEntries-1].
\* A read delivers a prefix of the fields (n bytes) and leaves the rest of
\* the buffer as it was.
HdrFields == 6
NF == HdrFields + MaxEntries

OpcodeVals == {MGMT_EV_COMMAND_COMP, MGMT_EV_INDEX_ADDED, MGMT_OP_INDEX_LIST}
HdrIndexVals == {0, 1}
CcOpcodeVals == {MGMT_OP_INDEX_LIST, OtherCcOpcode}
StatusVals == {0, 1}
NumIntfVals == 0..(MaxEntries + 1)
EntryVals == {0, 1}

EntrySeqs == [1..MaxEntries -> EntryVals]
\* what data[] can hold: any bytes
DataVals == {<<c, st, n>> \o e : c \in CcOpcodeVals, st \in StatusVals,
                                 n \in NumIntfVals, e \in EntrySeqs}
FullPkts == {<<o, x, 0>> \o d : o \in OpcodeVals, x \in HdrIndexVals,
                               d \in DataVals}
\* what one read can deliver: the first k fields of a packet, k = 0 included
Messages == {SubSeq(f, 1, k) : f \in FullPkts, k \in 0..NF}

\* read(fd, &ev, sizeof ev) returning the bytes of m
read_into(buf, m) == [i \in 1..NF |-> IF i <= Len(m) THEN m[i] ELSE buf[i]]

\* the request written at lines 172-174; data[] is not initialised
request_hdr == <<MGMT_OP_INDEX_LIST, HCI_DEV_NONE, 0>>

\* fault: a command-complete with another sub-opcode or a failure status
\* ends the wait
examine_mismatch_ends(buf, target, oob) ==
  IF buf[1] = MGMT_EV_INDEX_ADDED /\ buf[2] = target THEN "end"
  ELSE IF buf[1] = MGMT_EV_COMMAND_COMP
  THEN IF buf[4] # MGMT_OP_INDEX_LIST \/ buf[5] # 0 THEN "end"
       ELSE IF \E i \in 1..MaxEntries : i <= buf[6] /\ buf[HdrFields + i] = target
       THEN "end"
       ELSE IF buf[6] > MaxEntries THEN oob
       ELSE "continue"
  ELSE "continue"
\* lines 206-219 on the buffer; oob is the outcome of reading index[i] past
\* the end of the buffer: "end", "continue" or "crash"
examine(buf, target, oob) ==
  IF buf[1] = MGMT_EV_INDEX_ADDED /\ buf[2] = target THEN "end"
  ELSE IF buf[1] = MGMT_EV_COMMAND_COMP
  THEN IF buf[4] # MGMT_OP_INDEX_LIST \/ buf[5] # 0 THEN "continue"
       ELSE IF \E i \in 1..MaxEntries : i <= buf[6] /\ buf[HdrFields + i] = target
       THEN "end"
       ELSE IF buf[6] > MaxEntries THEN oob
       ELSE "continue"
  ELSE "continue"

\* the last field of the buffer that lines 206-218 read: the opcode; the
\* header index of an index-added; cc_opcode, then status, then num_intf of a
\* command-complete; and index[0..] up to the first match or to num_intf
inspected(buf, target) ==
  IF buf[1] = MGMT_EV_INDEX_ADDED THEN 2
  ELSE IF buf[1] = MGMT_EV_COMMAND_COMP
  THEN IF buf[4] # MGMT_OP_INDEX_LIST THEN 4
       ELSE IF buf[5] # 0 THEN 5
       ELSE LET hits == {i \in 1..MaxEntries :
                           i <= buf[6] /\ buf[HdrFields + i] = target}
            IN IF hits # {}
               THEN HdrFields + (CHOOSE i \in hits : \A j \in hits : i <= j)
               ELSE HdrFields + buf[6]
  ELSE 1

\* did the examination of the buffer stay inside the fields m delivered
read_class(buf, m, target) ==
  IF inspected(buf, target) <= Len(m) THEN "in" ELSE "out"

\* what a read of index[i] past the end of the buffer can do, when the scan
\* of lines 217-218 gets that far; a scan that stays inside has one outcome
OobOutcomes(buf) ==
  IF examine(buf, hci_interface, "crash") = "crash"
  THEN {"end", "continue", "crash"}
  ELSE {"continue"}

\* the event m as received names the target index
EventNamesTarget(m, target) ==
  \/ /\ Len(m) >= 2
     /\ m[1] = MGMT_EV_INDEX_ADDED
     /\ m[2] = target
  \/ /\ Len(m) >= HdrFields
     /\ m[1] = MGMT_EV_COMMAND_COMP
     /\ m[4] = MGMT_OP_INDEX_LIST
     /\ m[5] = 0
     /\ \E i \in 1..(Len(m) - HdrFields) : i <= m[6] /\ m[HdrFields + i] = target

(* ---- bt_vendor_fw_cfg ---- *)
\* fault: the failure path returns without calling back
fw_failure_silent(l) == l
\* label failure: lines 334-336
fw_failure(l) == l \o <<Ev("fwcfg_cb", <<>>, FALSE)>>
\* lines 328-330
fw_success(l) == l \o <<Ev("fwcfg_cb", <<>>, TRUE)>>

\* fault: the control socket is left open
wait_close_leak(f, fd) == f
\* fault: the active HCI descriptor is closed in place of the control socket
wait_close_hci(f, fd) == CloseIn(f, bt_vendor_fd)
\* label end / the close of the bind failure path: close(fd)
wait_close(f, fd) == CloseIn(f, fd)

\* fault: the descriptor is not checked before the bring-up starts
fw_fd_missing_unchecked(fd) == FALSE
\* line 302: if (fd == -1) goto failure
fw_fd_missing(fd) == fd = NoFd

\* lines 298-312 and bt_vendor_wait_hcidev lines 151-182
op_fw_cfg ==
  /\ Callable
  /\ op' = "FW_CFG"
  /\ fw_fd' = bt_vendor_fd
  /\ sawMatch' = FALSE
  /\ exitRead' = "none"
  /\ IF fw_fd_missing(bt_vendor_fd)
     THEN /\ log' = fw_failure(<<>>)
          /\ retval' = 0
          /\ waitRet' = NotCalled
          /\ UNCHANGED <<pc, fds, wfd, ev>>
     ELSE \E sockOk \in CanCreate(fds), bindOk \in BOOLEAN,
             wrote6 \in BOOLEAN, d \in DataVals :
            /\ UNCHANGED retval
            /\ IF ~sockOk
               THEN /\ log' = <<Ev("ctl_socket", <<>>, FALSE)>>
                    /\ waitRet' = <<-1>>
                    /\ pc' = "waited"
                    /\ UNCHANGED <<fds, wfd, ev>>
               ELSE LET fd == AllocFd(fds) IN
                    IF ~bindOk
                    THEN /\ log' = <<Ev("ctl_socket", <<fd>>, TRUE),
                                     Ev("ctl_bind", <<fd>>, FALSE),
                                     Ev("ctl_close", <<fd>>, TRUE)>>
                         /\ fds' = wait_close([fds EXCEPT ![fd] = "ctl"], fd)
                         /\ waitRet' = <<-1>>
                         /\ pc' = "waited"
                         /\ UNCHANGED <<wfd, ev>>
                    ELSE IF ~wrote6
                    THEN /\ log' = <<Ev("ctl_socket", <<fd>>, TRUE),
                                     Ev("ctl_bind", <<fd>>, TRUE),
                                     Ev("ctl_write", request_hdr, FALSE),
                                     Ev("ctl_close", <<fd>>, TRUE)>>
                         /\ fds' = wait_close([fds EXCEPT ![fd] = "ctl"], fd)
                         /\ waitRet' = <<-1>>
                         /\ pc' = "waited"
                         /\ UNCHANGED <<wfd, ev>>
                    ELSE /\ log' = <<Ev("ctl_socket", <<fd>>, TRUE),
                                     Ev("ctl_bind", <<fd>>, TRUE),
                                     Ev("ctl_write", request_hdr, TRUE)>>
                         /\ fds' = [fds EXCEPT ![fd] = "ctl"]
                         /\ wfd' = fd
                         /\ ev' = request_hdr \o d
                         /\ waitRet' = <<0>>
                         /\ pc' = "loop"
  /\ UNCHANGED <<bt_vendor_fd, fd_array>>
  /\ UNCHANGED statics

\* leaving the loop through break or goto end: close(fd); return ret.
\* cause is the log of the iteration that leaves the loop; iterations that
\* continue are not logged
wait_return(ret, cause) ==
  /\ waitRet' = <<ret>>
  /\ log' = log \o cause \o <<Ev("ctl_close", <<wfd>>, fds[wfd] # "free")>>
  /\ fds' = wait_close(fds, wfd)
  /\ pc' = "waited"
  /\ wfd' = NoFd
  /\ ev' = <<>>

\* one iteration of while (1), lines 184-221
wait_loop ==
  /\ pc = "loop"
  /\ \E n \in {-1, 0, 1} :
       IF n = -1 \/ n = 0
       THEN \* poll error, poll timeout
            /\ wait_return(-1, <<Ev("poll", <<n>>, FALSE)>>)
            /\ UNCHANGED <<sawMatch, exitRead>>
       ELSE \E pollin \in BOOLEAN :
            IF ~pollin
            THEN \* the descriptor is ready without POLLIN: next iteration
                 UNCHANGED <<waitRet, log, fds, pc, wfd, ev, sawMatch,
                             exitRead>>
            ELSE \E readOk \in BOOLEAN :
                 /\ IF ~readOk
                    THEN /\ wait_return(-1, <<Ev("poll", <<n>>, TRUE),
                                                Ev("read", <<>>, FALSE)>>)
                         /\ UNCHANGED <<sawMatch, exitRead>>
                    ELSE \E m \in Messages :
                         \E oob \in OobOutcomes(read_into(ev, m)) :
                         LET buf == read_into(ev, m)
                             r == examine(buf, hci_interface, oob)
                         IN /\ sawMatch' = (sawMatch \/
                                            EventNamesTarget(m, hci_interface))
                            /\ IF r = "end"
                               THEN /\ wait_return(waitRet[1],
                                         <<Ev("poll", <<n>>, TRUE),
                                           Ev("read", <<Len(m)>>, TRUE)>>)
                                    /\ exitRead' =
                                         read_class(buf, m, hci_interface)
                               ELSE IF r = "crash"
                               THEN /\ pc' = "crashed"
                                    /\ ev' = buf
                                    /\ exitRead' =
                                         read_class(buf, m, hci_interface)
                                    /\ UNCHANGED <<waitRet, log, fds, wfd>>
                               ELSE /\ ev' = buf
                                    /\ UNCHANGED <<waitRet, log, fds, pc, wfd,
                                                   exitRead>>
  /\ UNCHANGED <<bt_vendor_fd, fd_array, op, retval, fw_fd>>
  /\ UNCHANGED statics

\* fault: a failed bind is reported as success
fw_after_wait_bind_ignored(w, fd, target, ioOk, bdOk) ==
  IF w # 0 THEN fw_failure(<<>>)
  ELSE IF ~ioOk
  THEN fw_failure(<<Ev("ioctl_down", <<fd, target>>, FALSE)>>)
  ELSE fw_success(<<Ev("ioctl_down", <<fd, target>>, TRUE),
                    Ev("user_bind", <<fd, target>>, bdOk)>>)
\* fault: the ioctl is issued whatever the index wait returned
fw_after_wait_ungated(w, fd, target, ioOk, bdOk) ==
  IF ~ioOk
  THEN fw_failure(<<Ev("ioctl_down", <<fd, target>>, FALSE)>>)
  ELSE IF ~bdOk
  THEN fw_failure(<<Ev("ioctl_down", <<fd, target>>, TRUE),
                    Ev("user_bind", <<fd, target>>, FALSE)>>)
  ELSE IF w # 0
  THEN fw_failure(<<Ev("ioctl_down", <<fd, target>>, TRUE),
                    Ev("user_bind", <<fd, target>>, TRUE)>>)
  ELSE fw_success(<<Ev("ioctl_down", <<fd, target>>, TRUE),
                    Ev("user_bind", <<fd, target>>, TRUE)>>)
\* lines 312-336 once bt_vendor_wait_hcidev has returned w
fw_after_wait(w, fd, target, ioOk, bdOk) ==
  IF w # 0 THEN fw_failure(<<>>)
  ELSE IF ~ioOk
  THEN fw_failure(<<Ev("ioctl_down", <<fd, target>>, FALSE)>>)
  ELSE IF ~bdOk
  THEN fw_failure(<<Ev("ioctl_down", <<fd, target>>, TRUE),
                    Ev("user_bind", <<fd, target>>, FALSE)>>)
  ELSE fw_success(<<Ev("ioctl_down", <<fd, target>>, TRUE),
                    Ev("user_bind", <<fd, target>>, TRUE)>>)

fw_cfg_finish ==
  /\ pc = "waited"
  /\ \E ioOk \in BOOLEAN, bdOk \in BOOLEAN :
       log' = log \o fw_after_wait(waitRet[1], fw_fd, hci_interface, ioOk, bdOk)
  /\ retval' = 0
  /\ pc' = "idle"
  /\ UNCHANGED <<bt_vendor_fd, fds, fd_array, op>>
  /\ UNCHANGED waitLocals
  /\ UNCHANGED statics

Next ==
  \/ bt_vendor_init
  \/ bt_vendor_cleanup
  \/ bt_vendor_open
  \/ bt_vendor_close
  \/ op_power_ctrl
  \/ op_stub
  \/ op_fw_cfg
  \/ wait_loop
  \/ fw_cfg_finish

Spec == Init /\ [][Next]_vars

\* The library runs on one thread that is never descheduled for ever: a
\* started iteration of the wait loop, and the code after the wait, run.
LiveSpec == Spec /\ WF_vars(wait_loop) /\ WF_vars(fw_cfg_finish)

(***************************************************************************)
(* Properties                                                              *)
(***************************************************************************)
Returned == pc = "idle"
FwReturned == pc = "idle" /\ op = "FW_CFG"
HciSet(f) == {d \in FdRange : f[d] = "hci"}
CtlSet(f) == {d \in FdRange : f[d] = "ctl"}
AllOk(l) == \A i \in 1..Len(l) : l[i].ok
DispatchedOps == {"POWER_ON", "POWER_OFF", "POWER_NULL", "FW_CFG",
                  "USERIAL_OPEN", "USERIAL_CLOSE"} \cup StubOps

\* C1: every invocation of bt_vendor_fw_cfg has called fwcfg_cb exactly once
\* when it returns, and at no point of the invocation more than once.
C1_ExactlyOneCallback ==
  /\ op = "FW_CFG" => Count(log, "fwcfg_cb") <= 1
  /\ FwReturned => Count(log, "fwcfg_cb") = 1
  /\ op = "FW_CFG" /\ pc \in {"loop", "waited"} => Count(log, "fwcfg_cb") = 0
C1_Witness ==
  /\ FwReturned
  /\ Has(log, "ioctl_down")
  /\ ~HasOk(log, "ioctl_down")
  /\ Count(log, "fwcfg_cb") = 1

\* C2: the callback of bt_vendor_fw_cfg carries SUCCESS exactly when the
\* descriptor was open, the index wait returned 0, the device-down ioctl
\* succeeded and the user-channel bind succeeded; otherwise it carries FAIL.
C2_SuccessIffAllSteps ==
  FwReturned =>
    /\ HasOk(log, "fwcfg_cb") <=>
          /\ fw_fd # NoFd
          /\ waitRet = <<0>>
          /\ HasOk(log, "ioctl_down")
          /\ HasOk(log, "user_bind")
    /\ Has(log, "fwcfg_cb")
C2_Witness ==
  /\ FwReturned
  /\ HasOk(log, "fwcfg_cb")
  /\ sawMatch

\* C3: a power-on that starts the hook has written the unblock record
\* (soft = hard = 0) before the hook start, and writes no block record; a
\* power-off that blocks the radio with the hook enabled has stopped the hook
\* before the block record (soft = hard = 1), and writes no unblock record.
C3_PowerOrder ==
  /\ op = "POWER_ON" =>
       /\ ~Has(log, "hw_stop")
       /\ \A i \in 1..Len(log) : log[i].e = "rfkill_write" => log[i].a[3] = 0
       /\ Has(log, "hw_start") =>
            /\ HasOk(log, "rfkill_write")
            /\ Pos(log, "rfkill_write") < Pos(log, "hw_start")
  /\ op = "POWER_OFF" =>
       /\ ~Has(log, "hw_start")
       /\ \A i \in 1..Len(log) : log[i].e = "rfkill_write" => log[i].a[3] = 1
       /\ Has(log, "rfkill_write") /\ bt_hwcfg_en = 1 =>
            /\ HasOk(log, "hw_stop")
            /\ Pos(log, "hw_stop") < Pos(log, "rfkill_write")
C3_Witness ==
  /\ op = "POWER_ON"
  /\ HasOk(log, "rfkill_write")
  /\ Has(log, "hw_start")

\* C4: bt_vendor_wait_hcidev returns 0 exactly when one of the events it
\* read was an index-added for the target or a successful index-list
\* command-complete whose received index sequence contains the target.
C4_SuccessIffEventNamesTarget ==
  pc = "waited" => (waitRet = <<0>> <=> sawMatch)

\* C5: every invocation of bt_vendor_wait_hcidev that enters its poll loop
\* eventually leaves it, whatever the kernel delivers.
C5_WaitReturns == (pc = "loop") ~> (pc # "loop")

\* C6: whenever bt_vendor_wait_hcidev has returned, no control socket is
\* open, and the invocation closed the control socket exactly once if it
\* created one (and not at all otherwise), never closing a closed descriptor.
C6_ControlSocketClosed ==
  /\ pc \in {"idle", "waited"} => CtlSet(fds) = {}
  /\ op = "FW_CFG" /\ pc \in {"idle", "waited"} =>
       /\ Count(log, "ctl_close") = (IF HasOk(log, "ctl_socket") THEN 1 ELSE 0)
       /\ \A i \in 1..Len(log) : log[i].e = "ctl_close" => log[i].ok
  /\ pc = "loop" => CtlSet(fds) = {wfd} /\ Count(log, "ctl_close") = 0
C6_Witness ==
  /\ FwReturned
  /\ HasOk(log, "ctl_write")
  /\ waitRet = <<-1>>
  /\ Count(log, "ctl_close") = 1
  /\ CtlSet(fds) = {}

\* C7: in bt_vendor_fw_cfg the ioctl is issued only after the index wait
\* returned 0 (and after the wait closed its socket), the user-channel bind
\* only after a successful ioctl, success is signalled only after both
\* succeeded in that order, and both are issued on the active descriptor.
C7_StepsGated ==
  op = "FW_CFG" =>
    /\ Has(log, "ioctl_down") =>
         /\ waitRet = <<0>>
         /\ Has(log, "ctl_close")
         /\ Pos(log, "ctl_close") < Pos(log, "ioctl_down")
    /\ Has(log, "user_bind") =>
         /\ HasOk(log, "ioctl_down")
         /\ Pos(log, "ioctl_down") < Pos(log, "user_bind")
    /\ HasOk(log, "fwcfg_cb") =>
         /\ HasOk(log, "user_bind")
         /\ Pos(log, "user_bind") < Pos(log, "fwcfg_cb")
    /\ \A i \in 1..Len(log) :
         log[i].e \in {"ioctl_down", "user_bind"} =>
           /\ fw_fd # NoFd
           /\ log[i].a = <<fw_fd, hci_interface>>
           /\ fw_fd = bt_vendor_fd
           /\ fds[fw_fd] = "hci"
C7_Witness ==
  /\ FwReturned
  /\ HasOk(log, "ioctl_down")
  /\ Has(log, "user_bind")
  /\ ~HasOk(log, "user_bind")

\* C8 as stated: every dispatched operation returns 0 when it succeeded and
\* a non-zero status when it failed.
C8_ZeroIffSucceeded ==
  Returned /\ op \in DispatchedOps => (retval = 0 <=> AllOk(log))

\* C8 as amended: power control returns 0 exactly when every step it
\* performed succeeded; channel-close and the stub opcodes return 0 and do
\* not fail; channel-open returns 1 on success and -1 on failure;
\* firmware-config returns 0 whatever its outcome.
C8_StatusPerOpcode ==
  Returned =>
    /\ op \in {"POWER_ON", "POWER_OFF", "POWER_NULL"} =>
         (retval = 0 <=> AllOk(log))
    /\ op \in StubOps \cup {"USERIAL_CLOSE"} => retval = 0 /\ AllOk(log)
    /\ op = "USERIAL_OPEN" =>
         retval = (IF HasOk(log, "hci_socket") THEN 1 ELSE -1)
    /\ op = "FW_CFG" => retval = 0
C8_Witness ==
  /\ Returned
  /\ op = "USERIAL_OPEN"
  /\ HasOk(log, "hci_socket")
  /\ retval = 1

\* C9: a close with a descriptor active closes that open descriptor once and
\* leaves the active descriptor unopened; a close with none active closes
\* nothing, returns 0 and changes nothing else; so a close after a close
\* changes no descriptor state.
C9_CloseIdempotent ==
  [][(pc = "idle" /\ op' = "USERIAL_CLOSE") =>
       /\ bt_vendor_fd' = NoFd
       /\ retval' = 0
       /\ IF bt_vendor_fd = NoFd
          THEN /\ log' = <<>>
               /\ UNCHANGED <<fds, fd_array, pc>>
               /\ UNCHANGED statics
               /\ UNCHANGED waitLocals
          ELSE /\ fds[bt_vendor_fd] = "hci"
               /\ fds' = [fds EXCEPT ![bt_vendor_fd] = "free"]
               /\ Count(log', "hci_close") = 1
               /\ AllOk(log')]_vars
C9_Witness ==
  /\ Returned
  /\ op = "USERIAL_CLOSE"
  /\ log = <<>>
  /\ bt_vendor_fd = NoFd
  /\ fd_array # <<NoFd, NoFd, NoFd, NoFd>>

\* C10: only channel-open and channel-close change bt_vendor_fd or the set
\* of open HCI sockets; firmware-config, the index wait, power control and
\* every other opcode leave both as they were.
C10_OnlyOpenCloseChangeFd ==
  [][(bt_vendor_fd' # bt_vendor_fd \/ HciSet(fds') # HciSet(fds)) =>
       /\ pc = "idle"
       /\ op' \in {"USERIAL_OPEN", "USERIAL_CLOSE"}]_vars
C10_Witness ==
  /\ FwReturned
  /\ Has(log, "ctl_close")
  /\ bt_vendor_fd # NoFd
  /\ fds[bt_vendor_fd] = "hci"

PowerOps == {"POWER_ON", "POWER_OFF", "POWER_NULL"}
\* the block value an invocation asks for
BlockOf(o) == IF o = "POWER_ON" THEN 0 ELSE 1

\* C11: a power transition writes at most one kill-switch record, and exactly
\* one when the device was opened; the record has type Bluetooth, operation
\* change-all and soft = hard = block; a failed open or a rejected write
\* gives a non-zero status; and an opened device is closed once, after the
\* write, before the operation returns.
C11_RfkillRecordAndClose ==
  op \in PowerOps =>
    /\ Count(log, "rfkill_write") =
         (IF HasOk(log, "rfkill_open") THEN 1 ELSE 0)
    /\ \A i \in 1..Len(log) : log[i].e = "rfkill_write" =>
         log[i].a = <<RFKILL_TYPE_BLUETOOTH, RFKILL_OP_CHANGE_ALL,
                      BlockOf(op), BlockOf(op)>>
    /\ (\E i \in 1..Len(log) :
          log[i].e \in {"rfkill_open", "rfkill_write"} /\ ~log[i].ok)
         => retval # 0
    /\ Count(log, "rfkill_close") =
         (IF HasOk(log, "rfkill_open") THEN 1 ELSE 0)
    /\ Has(log, "rfkill_close") =>
         Pos(log, "rfkill_write") < Pos(log, "rfkill_close")
C11_Witness ==
  /\ op = "POWER_OFF"
  /\ Has(log, "rfkill_write")
  /\ ~HasOk(log, "rfkill_write")
  /\ Has(log, "rfkill_close")
  /\ retval # 0

\* C12: on power-on a failed unblock returns non-zero without a hook start;
\* on power-off a failed hook stop returns non-zero without opening or
\* writing the kill switch; no step is attempted twice in one invocation.
C12_FirstFailureShortCircuits ==
  op \in PowerOps =>
    /\ op = "POWER_ON" /\ Has(log, "rfkill_open") /\ ~HasOk(log, "rfkill_write")
         => ~Has(log, "hw_start") /\ retval # 0
    /\ op = "POWER_OFF" /\ Has(log, "hw_stop") /\ ~HasOk(log, "hw_stop")
         => ~Has(log, "rfkill_open") /\ ~Has(log, "rfkill_write") /\ retval # 0
    /\ \A e \in {"rfkill_open", "rfkill_write", "hw_start", "hw_stop"} :
         Count(log, e) <= 1
C12_Witness ==
  /\ op = "POWER_OFF"
  /\ Has(log, "hw_stop")
  /\ ~HasOk(log, "hw_stop")
  /\ retval # 0

\* C13: with the hook flag off no hook start or stop is ever requested; with
\* the kill switch on and the hook off, a power-on attempts the unblock once
\* and a power-off the block once, and neither requests the hook.
C13_HookOnlyIfEnabled ==
  op \in PowerOps /\ bt_hwcfg_en = 0 =>
    /\ ~Has(log, "hw_start")
    /\ ~Has(log, "hw_stop")
    /\ rfkill_en # 0 /\ op # "POWER_NULL" =>
         /\ Count(log, "rfkill_open") = 1
         /\ \A i \in 1..Len(log) : log[i].e = "rfkill_write" =>
              log[i].a[3] = BlockOf(op)
C13_Witness ==
  /\ op = "POWER_ON"
  /\ bt_hwcfg_en = 0
  /\ rfkill_en # 0
  /\ HasOk(log, "rfkill_write")
  /\ retval = 0

\* C19: with the kill-switch flag off, or with no parameter, power control
\* returns 0, opens and writes nothing, requests no hook and changes no
\* other state, even when the hook flag is on.
C19_PowerNoOpWhenDisabled ==
  [][(pc = "idle" /\ op' \in PowerOps
      /\ (rfkill_en = 0 \/ op' = "POWER_NULL")) =>
       /\ retval' = 0
       /\ log' = <<>>
       /\ UNCHANGED <<bt_vendor_fd, fds, fd_array, pc>>
       /\ UNCHANGED statics
       /\ UNCHANGED waitLocals]_vars
C19_Witness ==
  /\ op = "POWER_ON"
  /\ rfkill_en = 0
  /\ bt_hwcfg_en = 1
  /\ log = <<>>
  /\ retval = 0

\* C14: a firmware-config request made while no HCI descriptor is active
\* returns at once: its only effect is one fwcfg_cb(FAIL); it creates no
\* control socket, writes no request, never enters the poll loop and issues
\* no ioctl or bind.
C14_NotOpenFailsImmediately ==
  [][(pc = "idle" /\ op' = "FW_CFG" /\ bt_vendor_fd = NoFd) =>
       /\ pc' = "idle"
       /\ log' = <<Ev("fwcfg_cb", <<>>, FALSE)>>
       /\ waitRet' = NotCalled
       /\ UNCHANGED <<bt_vendor_fd, fds, fd_array, wfd, ev>>]_vars
C14_Witness ==
  /\ FwReturned
  /\ fw_fd = NoFd
  /\ waitRet = NotCalled
  /\ log = <<Ev("fwcfg_cb", <<>>, FALSE)>>

\* C17: a successful open leaves the four channel slots equal to one open
\* HCI descriptor, which is also bt_vendor_fd; an open whose socket creation
\* fails returns -1 and leaves the slots and bt_vendor_fd as they were.
C17_OpenSlots ==
  [][(pc = "idle" /\ op' = "USERIAL_OPEN") =>
       IF HasOk(log', "hci_socket")
       THEN /\ bt_vendor_fd' # NoFd
            /\ fds'[bt_vendor_fd'] = "hci"
            /\ fds[bt_vendor_fd'] = "free"
            /\ \A i \in 1..4 : fd_array'[i] = bt_vendor_fd'
            /\ Len(fd_array') = 4
       ELSE /\ retval' = -1
            /\ UNCHANGED <<fd_array, bt_vendor_fd, fds>>]_vars
C17_Witness ==
  /\ Returned
  /\ op = "USERIAL_OPEN"
  /\ HasOk(log, "hci_socket")
  /\ fd_array = <<bt_vendor_fd, bt_vendor_fd, bt_vendor_fd, bt_vendor_fd>>
  /\ bt_vendor_fd # NoFd

\* C18: at most one HCI socket of the library is open, and one is open
\* exactly when bt_vendor_fd is not -1.
C18_AtMostOneHciSocket ==
  /\ Cardinality(HciSet(fds)) <= 1
  /\ HciSet(fds) # {} <=> bt_vendor_fd # NoFd

\* C20: cleanup sets the callback table to NULL and leaves bt_vendor_fd, the
\* controller index, both flags, the descriptor table and the caller's
\* slots unchanged: an open HCI socket stays open and active.
C20_CleanupOnlyClearsCallbacks ==
  [][(pc = "idle" /\ bt_vendor_callbacks # "NULL" /\ op' = "CLEANUP") =>
       /\ bt_vendor_callbacks' = "NULL"
       /\ UNCHANGED <<bt_vendor_fd, hci_interface, rfkill_en, bt_hwcfg_en,
                      fds, fd_array>>]_vars
C20_Witness ==
  /\ op = "CLEANUP"
  /\ bt_vendor_callbacks = "NULL"
  /\ bt_vendor_fd # NoFd
  /\ fds[bt_vendor_fd] = "hci"

WaitOver == op = "FW_CFG" /\ pc \in {"waited", "idle"}
FailedWith(l, e, a) ==
  \E i \in 1..Len(l) : l[i].e = e /\ l[i].a = a /\ ~l[i].ok

C16_ExaminesOnlyReceived == exitRead # "out"
====
